---- MODULE Spec2Model ----
(***************************************************************************)
(* fdup: duplicate-file finder (src/src/main.rs).                          *)
(*                                                                         *)
(* The model covers check_duplicates, walk_directory and get_file_hash.    *)
(* The file system and the parsed command line are the environment: they   *)
(* are chosen in Init and stay fixed during a run.  A path is a node of a  *)
(* directory tree; node 0 is the directory named by the "path" argument.   *)
(***************************************************************************)
EXTENDS Integers, Sequences, FiniteSets, TLC

\* ---------------------------------------------------------------- bounds
\* Nodes 1..MaxNode may exist below the root.
MaxNode == 4
\* At most this many system calls of a run fail.
MaxFaults == 1
\* Number of bytes of a digest (32 in the program, scaled down here).
DigestLen == 2
\* Length of the read buffer of get_file_hash (4096 in the program, scaled
\* down here).
BufferLen == 2
\* A file read by get_file_hash has at most this many bytes.
MaxContent == 4

\* ------------------------------------------------------- program constants
FILE_ATTRIBUTE_HIDDEN == 2

\* ------------------------------------------------------------ environment
Root == 0
Nodes == 0..MaxNode
\* The shape of the tree: nodes 1 and 2 lie in the root, node 3 in node 1,
\* node 4 in node 2, node 5 in node 3, ...
Parent(n) == IF n <= 2 THEN Root ELSE n - 2

\* The system calls that can fail on a path:
\*   "list"  the DirEntry of the path is an Err in the listing of its parent
\*   "meta"  item_path.metadata() returns Err
\*   "isdir" the stat made by item_path.is_dir() fails
\*   "io"    read_dir of the directory fails / open or read of the file fails
FaultKinds == {"list", "meta", "isdir", "io"}

\* File attribute words met in the model: 1 is read-only, 2 is hidden.
AttrSample == {1, FILE_ATTRIBUTE_HIDDEN}

\* The digests files may have, as sequences of byte values.
DigestA == [i \in 1..DigestLen |-> IF i = 1 THEN 1 ELSE 16]
DigestB == [i \in 1..DigestLen |-> IF i = 1 THEN 17 ELSE IF i = 2 THEN 0 ELSE 16]
DigestC == [i \in 1..DigestLen |-> IF i = 1 THEN 171 ELSE 205]
Digests == {DigestA, DigestB, DigestC}

\* The result of args.get::<bool>("recurse"): an Err, or Ok of the value.
RecurseLookups == {"Err", "OkFalse", "OkTrue"}

VARIABLES
    kind,            \* node -> "dir" | "file" | "none" (no such path)
    attrs,           \* node -> file attribute word
    sha,             \* node -> SHA-256 digest of the content of a file
    faults,          \* node -> the system calls that fail on it
    recurse,         \* the result of the lookup of option "recurse"
    include_hidden,  \* config.has_arg("include-hidden")
    pc,              \* position in check_duplicates
    directory_queue, \* VecDeque<PathBuf>
    file_hashmap,    \* HashMap<String, Vec<PathBuf>>
    walked,          \* the calls of walk_directory, in order
    hash_calls,      \* the calls of get_file_hash, in order
    enqueued,        \* every push_back onto the queue, in order
    stderr,          \* the paths named by the eprintln! lines, in order
    \* The read loop of one call of get_file_hash:
    content,         \* the bytes of the file
    file_pos,        \* the cursor of the open file
    buffer,          \* let mut buffer = [0; 4096]
    hasher,          \* the bytes fed to the Sha256 hasher so far
    hash_pc          \* "idle" | "open" | "read" | "done" | "err"

env == <<kind, attrs, sha, faults, recurse, include_hidden>>
walker == <<pc, directory_queue, file_hashmap, walked, hash_calls, enqueued,
            stderr>>
reader == <<content, file_pos, buffer, hasher, hash_pc>>
vars == <<kind, attrs, sha, faults, recurse, include_hidden, pc,
          directory_queue, file_hashmap, walked, hash_calls, enqueued, stderr,
          content, file_pos, buffer, hasher, hash_pc>>

\* ------------------------------------------------------------ sequences
RECURSIVE SeqOfSet(_)
SeqOfSet(S) ==
    IF S = {} THEN <<>>
    ELSE LET m == CHOOSE x \in S : \A y \in S : x <= y
         IN <<m>> \o SeqOfSet(S \ {m})

Range(s) == {s[i] : i \in 1..Len(s)}

\* ---------------------------------------------------------- file system
\* std::fs::read_dir(path): the entries of the directory, in listing order.
Children(d) == SeqOfSet({n \in 1..MaxNode : Parent(n) = d /\ kind[n] # "none"})

read_dir_ok(path) == kind[path] = "dir" /\ "io" \notin faults[path]

\* directory_iterator.flatten(): the entries whose DirEntry is Ok.
flatten(entries) == SelectSeq(entries, LAMBDA n : "list" \notin faults[n])

metadata_ok(n) == "meta" \notin faults[n]

\* meta.file_attributes() & FILE_ATTRIBUTE_HIDDEN != 0
hidden_bit(n) == (attrs[n] \div FILE_ATTRIBUTE_HIDDEN) % 2 # 0

\* Path::is_dir(): false when the stat fails.
is_dir(n) == kind[n] = "dir" /\ "isdir" \notin faults[n]

\* ------------------------------------------------------- get_file_hash
HexChars == <<"0", "1", "2", "3", "4", "5", "6", "7",
              "8", "9", "a", "b", "c", "d", "e", "f">>

\* format!("{:x}", byte): lowercase hexadecimal without padding.
fmt_x(byte) ==
    IF byte < 16 THEN <<HexChars[byte + 1]>>
    ELSE <<HexChars[(byte \div 16) + 1], HexChars[(byte % 16) + 1]>>

\* .map(|byte| format!("{:x}", byte)).join("")
RECURSIVE hex_join(_)
hex_join(digest) ==
    IF digest = <<>> THEN <<>>
    ELSE fmt_x(Head(digest)) \o hex_join(Tail(digest))

\* File::open(path)? and file.read(&mut buffer)?: a directory cannot be
\* opened as a file.
file_read_ok(n) == kind[n] = "file" /\ "io" \notin faults[n]

get_file_hash(n) ==
    IF file_read_ok(n)
    THEN [ok |-> TRUE, hash |-> hex_join(sha[n])]
    ELSE [ok |-> FALSE, hash |-> <<>>]

\* ------------------------------------------------------ walk_directory
\* The hidden check of lines 105-109: the entry is passed over.
skip_hidden(n) == metadata_ok(n) /\ hidden_bit(n) /\ ~include_hidden

\* file_hash_map.entry(hash).or_insert(Vec::new()).push(item_path)
record(m, hash, n) ==
    IF hash \in DOMAIN m
    THEN [m EXCEPT ![hash] = Append(@, n)]
    ELSE m @@ (hash :> <<n>>)

\* Mutants of push_back: the directory is not queued; it is queued twice.
push_back_dropped(q, n) == q
push_back_twice(q, n) == Append(Append(q, n), n)
\* Mutant of push_back: the directory goes to the front of the queue.
push_front(q, n) == <<n>> \o q

\* to_visit_queue.push_back(item_path)
push_back(q, n) == Append(q, n)

\* The body of the for loop, from entry i on.  st is the state of the walk:
\* the queue, the map, and the pushes and hash calls made so far.
RECURSIVE walk_entries(_, _, _)
walk_entries(entries, i, st) ==
    IF i > Len(entries) THEN [st EXCEPT !.ok = TRUE]
    ELSE LET n == entries[i] IN
         IF skip_hidden(n) THEN walk_entries(entries, i + 1, st)
         ELSE IF is_dir(n)
         THEN walk_entries(entries, i + 1,
                  [st EXCEPT !.queue = push_back(@, n),
                             !.pushed = Append(@, n)])
         ELSE LET h == get_file_hash(n)
                  st1 == [st EXCEPT !.hashed = Append(@, n)]
              IN IF h.ok
                 THEN walk_entries(entries, i + 1,
                          [st1 EXCEPT !.map = record(@, h.hash, n)])
                 ELSE [st1 EXCEPT !.ok = FALSE]

walk_directory(path, q, m) ==
    LET st0 == [ok |-> FALSE, queue |-> q, map |-> m,
                pushed |-> <<>>, hashed |-> <<>>]
    IN IF ~read_dir_ok(path) THEN st0
       ELSE walk_entries(flatten(Children(path)), 1, st0)

\* ---------------------------------------------------- check_duplicates
\* args.get::<bool>("recurse").is_ok()
recurse_is_ok == recurse # "Err"

\* Mutant of WalkRoot: the root is also seeded into the queue.
WalkRootSeeded ==
    /\ pc = "start"
    /\ \E r \in {walk_directory(Root, directory_queue, file_hashmap)} :
        /\ directory_queue' = Append(r.queue, Root)
        /\ file_hashmap' = r.map
        /\ walked' = Append(walked, Root)
        /\ hash_calls' = hash_calls \o r.hashed
        /\ enqueued' = enqueued \o r.pushed
        /\ stderr' = IF r.ok THEN stderr ELSE Append(stderr, Root)
        /\ pc' = IF r.ok /\ recurse_is_ok THEN "loop" ELSE "done"
    /\ UNCHANGED <<env, reader>>

\* Lines 29-33: the walk of the folder passed.
WalkRoot ==
    /\ pc = "start"
    /\ \E r \in {walk_directory(Root, directory_queue, file_hashmap)} :
        /\ directory_queue' = r.queue
        /\ file_hashmap' = r.map
        /\ walked' = Append(walked, Root)
        /\ hash_calls' = hash_calls \o r.hashed
        /\ enqueued' = enqueued \o r.pushed
        /\ stderr' = IF r.ok THEN stderr ELSE Append(stderr, Root)
        /\ pc' = IF r.ok /\ recurse_is_ok THEN "loop" ELSE "done"
    /\ UNCHANGED <<env, reader>>

\* Mutant of PopWalk: a failed walk ends the loop.
PopWalkAborting ==
    /\ pc = "loop"
    /\ directory_queue # <<>>
    /\ \E directory \in {Head(directory_queue)} :
       \E r \in {walk_directory(directory, Tail(directory_queue), file_hashmap)} :
        /\ directory_queue' = r.queue
        /\ file_hashmap' = r.map
        /\ walked' = Append(walked, directory)
        /\ hash_calls' = hash_calls \o r.hashed
        /\ enqueued' = enqueued \o r.pushed
        /\ stderr' = IF r.ok THEN stderr ELSE Append(stderr, directory)
        /\ pc' = IF r.ok THEN "loop" ELSE "done"
    /\ UNCHANGED <<env, reader>>

\* Mutant of PopWalk: the diagnostic names the root, not the directory.
PopWalkNamingRoot ==
    /\ pc = "loop"
    /\ directory_queue # <<>>
    /\ \E directory \in {Head(directory_queue)} :
       \E r \in {walk_directory(directory, Tail(directory_queue), file_hashmap)} :
        /\ directory_queue' = r.queue
        /\ file_hashmap' = r.map
        /\ walked' = Append(walked, directory)
        /\ hash_calls' = hash_calls \o r.hashed
        /\ enqueued' = enqueued \o r.pushed
        /\ stderr' = IF r.ok THEN stderr ELSE Append(stderr, Root)
        /\ pc' = "loop"
    /\ UNCHANGED <<env, reader>>

\* Mutant of PopWalk: the directory walked stays at the front of the queue.
PopWalkKeeping ==
    /\ pc = "loop"
    /\ directory_queue # <<>>
    /\ \E directory \in {Head(directory_queue)} :
       \E r \in {walk_directory(directory, directory_queue, file_hashmap)} :
        /\ directory_queue' = r.queue
        /\ file_hashmap' = r.map
        /\ walked' = Append(walked, directory)
        /\ hash_calls' = hash_calls \o r.hashed
        /\ enqueued' = enqueued \o r.pushed
        /\ stderr' = IF r.ok THEN stderr ELSE Append(stderr, directory)
        /\ pc' = "loop"
    /\ UNCHANGED <<env, reader>>

\* Lines 34-46: one turn of the while loop.
PopWalk ==
    /\ pc = "loop"
    /\ directory_queue # <<>>
    /\ \E directory \in {Head(directory_queue)} :
       \E r \in {walk_directory(directory, Tail(directory_queue), file_hashmap)} :
        /\ directory_queue' = r.queue
        /\ file_hashmap' = r.map
        /\ walked' = Append(walked, directory)
        /\ hash_calls' = hash_calls \o r.hashed
        /\ enqueued' = enqueued \o r.pushed
        /\ stderr' = IF r.ok THEN stderr ELSE Append(stderr, directory)
        /\ pc' = "loop"
    /\ UNCHANGED <<env, reader>>

\* Line 34: the queue is empty, the loop ends.
LoopExit ==
    /\ pc = "loop"
    /\ directory_queue = <<>>
    /\ pc' = "done"
    /\ UNCHANGED <<env, reader, directory_queue, file_hashmap, walked,
                   hash_calls, enqueued, stderr>>

\* ------------------------------------------------------------------ Init
\* A path exists when its parent is a directory.
KindOK(k) ==
    /\ k[Root] = "dir"
    /\ \A n \in 1..MaxNode : (k[n] = "none") = (k[Parent(n)] # "dir")

\* The system calls that can fail on the paths of tree k.
FaultPairs(k) ==
    {<<Root, "io">>}
    \cup {<<n, "list">> : n \in {x \in 1..MaxNode : k[x] # "none"}}
    \cup {<<n, "meta">> : n \in {x \in 1..MaxNode : k[x] # "none"}}
    \cup {<<n, "io">> : n \in {x \in 1..MaxNode : k[x] # "none"}}
    \cup {<<n, "isdir">> : n \in {x \in 1..MaxNode : k[x] = "dir"}}

RECURSIVE SubsetsUpTo(_, _)
SubsetsUpTo(c, S) ==
    IF c = 0 THEN {{}}
    ELSE LET prev == SubsetsUpTo(c - 1, S)
         IN prev \cup {P \cup {x} : P \in prev, x \in S}

FaultsOf(P) == [n \in Nodes |-> {f \in FaultKinds : <<n, f>> \in P}]

\* No call of get_file_hash is followed step by step.
ReaderIdle ==
    /\ content = <<>>
    /\ file_pos = 0
    /\ buffer = [i \in 1..BufferLen |-> 0]
    /\ hasher = <<>>
    /\ hash_pc = "idle"

Init ==
    /\ kind \in {k \in [Nodes -> {"dir", "file", "none"}] : KindOK(k)}
    /\ attrs \in {a \in [Nodes -> AttrSample] :
                    \A n \in Nodes : (n = Root \/ kind[n] = "none") => a[n] = 1}
    /\ sha \in {s \in [Nodes -> Digests] :
                    \A n \in Nodes : kind[n] # "file" => s[n] = DigestA}
    /\ faults \in {FaultsOf(P) : P \in SubsetsUpTo(MaxFaults, FaultPairs(kind))}
    /\ recurse \in RecurseLookups
    /\ include_hidden \in BOOLEAN
    /\ pc = "start"
    /\ directory_queue = <<>>
    /\ file_hashmap = <<>>
    /\ walked = <<>>
    /\ hash_calls = <<>>
    /\ enqueued = <<>>
    /\ stderr = <<>>
    /\ ReaderIdle

Next == WalkRoot \/ PopWalk \/ LoopExit

Spec == Init /\ [][Next]_vars

\* ------------------------------------------- get_file_hash, read by read
\* The byte values and the contents of the file read.
ByteSample == {1, 2}
Contents == UNION {[1..l -> ByteSample] : l \in 0..MaxContent}

Min(a, b) == IF a <= b THEN a ELSE b

\* Mutant of fed_bytes: the whole buffer is fed to the hasher.
fed_whole_buffer(buf, read_bytes) == buf

\* &buffer[..read_bytes]
fed_bytes(buf, read_bytes) == SubSeq(buf, 1, read_bytes)

\* Line 126: File::open(path)? succeeds.
OpenFile ==
    /\ hash_pc = "open"
    /\ hash_pc' = "read"
    /\ UNCHANGED <<env, walker, content, file_pos, buffer, hasher>>

\* Line 126: File::open(path)? fails, get_file_hash returns the error.
OpenFails ==
    /\ hash_pc = "open"
    /\ hash_pc' = "err"
    /\ UNCHANGED <<env, walker, content, file_pos, buffer, hasher>>

\* Lines 129-133: file.read(&mut buffer) returns read_bytes > 0, any number
\* of bytes up to the length of the buffer and the bytes left in the file;
\* the bytes read overwrite the front of the buffer and are fed to the hasher.
ReadChunk ==
    /\ hash_pc = "read"
    /\ \E read_bytes \in 1..Min(BufferLen, Len(content) - file_pos) :
          /\ buffer' = [i \in 1..BufferLen |->
                          IF i <= read_bytes THEN content[file_pos + i]
                          ELSE buffer[i]]
          /\ hasher' = hasher \o fed_bytes(buffer', read_bytes)
          /\ file_pos' = file_pos + read_bytes
    /\ UNCHANGED <<env, walker, content, hash_pc>>

\* Lines 129-135: file.read returns 0 at the end of the file, the loop
\* breaks and the digest is finalized.
ReadEnd ==
    /\ hash_pc = "read"
    /\ file_pos = Len(content)
    /\ hash_pc' = "done"
    /\ UNCHANGED <<env, walker, content, file_pos, buffer, hasher>>

\* Line 129: file.read(&mut buffer)? fails, get_file_hash returns the error.
ReadFails ==
    /\ hash_pc = "read"
    /\ hash_pc' = "err"
    /\ UNCHANGED <<env, walker, content, file_pos, buffer, hasher>>

\* One call of get_file_hash on a file of any content; no traversal runs.
HashInit ==
    /\ kind = [n \in Nodes |-> IF n = Root THEN "dir" ELSE "none"]
    /\ attrs = [n \in Nodes |-> 1]
    /\ sha = [n \in Nodes |-> DigestA]
    /\ faults = [n \in Nodes |-> {}]
    /\ recurse = "Err"
    /\ include_hidden = FALSE
    /\ pc = "start"
    /\ directory_queue = <<>>
    /\ file_hashmap = <<>>
    /\ walked = <<>>
    /\ hash_calls = <<>>
    /\ enqueued = <<>>
    /\ stderr = <<>>
    /\ content \in Contents
    /\ file_pos = 0
    /\ buffer = [i \in 1..BufferLen |-> 0]
    /\ hasher = <<>>
    /\ hash_pc = "open"

HashNext == OpenFile \/ OpenFails \/ ReadChunk \/ ReadEnd \/ ReadFails

HashSpec == HashInit /\ [][HashNext]_vars

\* ======================================================== properties
\* The paths stored in the index, over all fingerprint lists.
IndexPaths == UNION {Range(file_hashmap[h]) : h \in DOMAIN file_hashmap}

FaultSet == {<<n, f>> \in Nodes \X FaultKinds : f \in faults[n]}

\* An entry is eligible unless it is hidden and include-hidden is not set.
Eligible(n) == ~(hidden_bit(n) /\ ~include_hidden)

\* n exists and neither n nor an ancestor of n below the root is filtered.
RECURSIVE Visible(_)
Visible(n) ==
    \/ n = Root
    \/ kind[n] # "none" /\ Eligible(n) /\ Visible(Parent(n))

\* n lies in the subtree of d (n = d included).
RECURSIVE Under(_, _)
Under(n, d) == n = d \/ (n # Root /\ Under(Parent(n), d))

Injective(s) == \A i, j \in 1..Len(s) : s[i] = s[j] => i = j

\* s is a subsequence of t picked by position: the elements of s occur in
\* t in the same order.
InOrderOf(s, t) ==
    \A i, j \in 1..Len(s) : i < j =>
        \E a, b \in 1..Len(t) : a < b /\ t[a] = s[i] /\ t[b] = s[j]

\* ---------------------------------------------------------------- C1
\* C1: when a recursive run over a tree without failures has returned, the
\* paths in the index are exactly the files that are eligible and whose
\* ancestors below the root are all eligible.
C1_CompleteRecursive ==
    (pc = "done" /\ recurse = "OkTrue" /\ FaultSet = {}) =>
        IndexPaths = {n \in 1..MaxNode : kind[n] = "file" /\ Visible(n)}

\* A recursive run returned with a file two levels below the root in the
\* index, and a hidden entry was left out.
C1_Witness ==
    /\ pc = "done" /\ recurse = "OkTrue" /\ FaultSet = {}
    /\ \E n \in IndexPaths : Parent(n) # Root
    /\ \E n \in 1..MaxNode : kind[n] = "file" /\ ~Visible(n)

\* ---------------------------------------------------------------- C2
\* C2: when a run in which recurse is not enabled has returned, and the root
\* and its entries are readable, the paths in the index are exactly the
\* eligible files that are immediate children of the root.
C2_CompleteNonRecursive ==
    (/\ pc = "done"
     /\ recurse # "OkTrue"
     /\ \A n \in Nodes : (n = Root \/ Parent(n) = Root) => faults[n] = {}) =>
        IndexPaths = {n \in 1..MaxNode :
                        kind[n] = "file" /\ Parent(n) = Root /\ Eligible(n)}

\* ---------------------------------------------------------------- C3
\* C3: when include-hidden is not set, no entry that carries the hidden
\* attribute is hashed, recorded in the index or pushed onto the queue.
C3_HiddenFiltered ==
    ~include_hidden =>
        \A n \in 1..MaxNode : (kind[n] # "none" /\ hidden_bit(n)) =>
            /\ n \notin Range(hash_calls)
            /\ n \notin IndexPaths
            /\ n \notin Range(enqueued)

\* ---------------------------------------------------------------- C4
\* C4: the recorded files of one content are the whole of one list of the
\* index (a list holds files of one content only, and all of them), and the
\* paths of every list are in the order in which they were hashed.
C4_GroupingInOrder ==
    /\ \A h \in DOMAIN file_hashmap :
          /\ \A p, q \in Range(file_hashmap[h]) : sha[p] = sha[q]
          /\ InOrderOf(file_hashmap[h], hash_calls)
    /\ \A p, q \in IndexPaths : sha[p] = sha[q] =>
          \E h \in DOMAIN file_hashmap :
              p \in Range(file_hashmap[h]) /\ q \in Range(file_hashmap[h])

\* ---------------------------------------------------------------- C5
\* C5: when a recursive run has returned in which the one failure was that
\* subdirectory d could not be opened, every eligible file outside d whose
\* ancestors are eligible is in the index, and the diagnostics name d.
C5_Resilient ==
    \A d \in 1..MaxNode :
        (/\ pc = "done" /\ recurse = "OkTrue"
         /\ kind[d] = "dir" /\ FaultSet = {<<d, "io">>}
         /\ d \in Range(walked)) =>
            /\ IndexPaths = {n \in 1..MaxNode :
                              kind[n] = "file" /\ Visible(n) /\ ~Under(n, d)}
            /\ stderr = <<d>>

\* The first subdirectory popped failed, and a file of its sibling
\* directory, walked after it, is in the index.
C5_Witness ==
    /\ pc = "done" /\ recurse = "OkTrue"
    /\ FaultSet = {<<1, "io">>} /\ kind[1] = "dir"
    /\ walked = <<Root, 1, 2>>
    /\ 4 \in IndexPaths
    /\ stderr = <<1>>

\* ---------------------------------------------------------------- C6
\* C6: when the one failure of a run is that hashing file f failed, every
\* other eligible entry of the directory of f is recorded (a file) or
\* enqueued (a subdirectory).
C6_FileFailureLocal ==
    \A f \in 1..MaxNode :
        (/\ pc = "done"
         /\ kind[f] = "file" /\ FaultSet = {<<f, "io">>}
         /\ f \in Range(hash_calls)) =>
            \A n \in 1..MaxNode :
                (n # f /\ Parent(n) = Parent(f) /\ kind[n] # "none"
                 /\ Eligible(n)) =>
                    /\ kind[n] = "file" => n \in IndexPaths
                    /\ kind[n] = "dir" => n \in Range(enqueued)

\* ---------------------------------------------------------------- C7
\* C7: when a recursive run has returned, every directory that was pushed
\* onto the queue has been walked.
C7_QueueDrained ==
    (pc = "done" /\ recurse = "OkTrue") =>
        Range(enqueued) \subseteq Range(walked)

\* ---------------------------------------------------------------- C8
\* C8: every fingerprint has two hexadecimal characters per digest byte.
C8_FixedLength ==
    \A h \in DOMAIN file_hashmap : Len(h) = 2 * DigestLen

\* ---------------------------------------------------------------- C9
\* C9: two files with different digests are never in the same list of the
\* index.
C9_NoFalseMerge ==
    \A h \in DOMAIN file_hashmap :
        \A i, j \in 1..Len(file_hashmap[h]) :
            sha[file_hashmap[h][i]] = sha[file_hashmap[h][j]]

\* --------------------------------------------------------------- C10
\* C10: no path occurs twice in the index, in one list or in two, and no
\* directory is walked twice.
C10_RecordedOnce ==
    /\ \A h \in DOMAIN file_hashmap : Injective(file_hashmap[h])
    /\ \A g, h \in DOMAIN file_hashmap :
          g # h => Range(file_hashmap[g]) \cap Range(file_hashmap[h]) = {}
    /\ Injective(walked)

\* A recursive run walked three directories and holds a duplicate group.
C10_Witness ==
    /\ pc = "done"
    /\ Len(walked) >= 3
    /\ \E h \in DOMAIN file_hashmap : Len(file_hashmap[h]) >= 2

\* --------------------------------------------------------------- C11
\* C11: every run returns, and a run whose root directory cannot be opened
\* returns an empty index.  Returning is stated by a measure: the run is at
\* "start" or in the loop, where WalkRoot, or one of PopWalk and LoopExit,
\* can be taken, or it has returned; every step walks one more directory or
\* returns; and no directory is walked twice, so that there are at most as
\* many walks as directories.
C11_Terminates ==
    /\ [](pc \in {"start", "loop", "done"})
    /\ [][Len(walked') = Len(walked) + 1 \/ pc' = "done"]_vars
    /\ [](Injective(walked) /\ \A i \in 1..Len(walked) : kind[walked[i]] = "dir")
    /\ []((pc = "done" /\ "io" \in faults[Root]) => file_hashmap = <<>>)

\* A run returned after the root could not be opened.
C11_Witness ==
    /\ pc = "done"
    /\ "io" \in faults[Root]
    /\ file_hashmap = <<>>
    /\ stderr = <<Root>>

\* --------------------------------------------------------------- C12
\* The walk of directory d returns an error: the directory cannot be read,
\* or the hashing of one of its entries fails.
WalkFails(d) ==
    \/ ~read_dir_ok(d)
    \/ \E n \in 1..MaxNode :
          /\ Parent(n) = d /\ kind[n] # "none" /\ "list" \notin faults[n]
          /\ ~skip_hidden(n) /\ ~is_dir(n) /\ ~file_read_ok(n)

\* C12: the diagnostics are, in order, the walked directories whose walk
\* returned an error: one line each, naming the directory, none for a walk
\* that succeeded.
C12_Diagnostics ==
    /\ stderr = SelectSeq(walked, WalkFails)
    /\ Injective(stderr)

\* A run returned with a diagnostic for a subdirectory and with walks that
\* succeeded.
C12_Witness ==
    /\ pc = "done"
    /\ Len(stderr) >= 1 /\ stderr[1] # Root
    /\ Len(walked) > Len(stderr)

\* --------------------------------------------------------------- C14
\* C14: an entry whose listing or metadata read fails is neither hashed nor
\* enqueued, and when that is the one failure of the run no walk returns an
\* error.
C14_SoftFailure ==
    \A n \in 1..MaxNode :
        (kind[n] # "none" /\ faults[n] \cap {"list", "meta"} # {}) =>
            /\ n \notin Range(hash_calls)
            /\ n \notin Range(enqueued)
            /\ FaultSet \subseteq {<<n, "list">>, <<n, "meta">>} => stderr = <<>>

\* --------------------------------------------------------------- C15
\* C15: the first directory walked is the root, the root is not walked
\* again, and a run that returned has walked it.
C15_RootOnceFirst ==
    /\ walked # <<>> =>
          /\ walked[1] = Root
          /\ \A i \in 2..Len(walked) : walked[i] # Root
    /\ pc # "start" => walked # <<>>

\* A recursive run returned after walking the root and two more directories.
C15_Witness ==
    /\ pc = "done"
    /\ Len(walked) >= 3
    /\ walked[1] = Root

\* --------------------------------------------------------------- C16
\* The number of directories between the root and n.
RECURSIVE Depth(_)
Depth(n) == IF n = Root THEN 0 ELSE 1 + Depth(Parent(n))

\* s is a prefix of t.
IsPrefix(s, t) == Len(s) <= Len(t) /\ s = SubSeq(t, 1, Len(s))

\* C16: after the root, the directories are walked in the order in which
\* they were pushed; a directory is never walked after a deeper one; and in
\* every list of the index a file never follows a deeper one.
C16_BreadthFirst ==
    /\ walked # <<>> => IsPrefix(Tail(walked), enqueued)
    /\ \A i, j \in 1..Len(walked) :
          i < j => Depth(walked[i]) <= Depth(walked[j])
    /\ \A h \in DOMAIN file_hashmap :
          \A i, j \in 1..Len(file_hashmap[h]) :
              i < j => Depth(file_hashmap[h][i]) <= Depth(file_hashmap[h][j])

\* A recursive run walked a directory two levels below the root after both
\* directories of the level above, and recorded a file.
C16_Witness ==
    /\ pc = "done" /\ recurse = "OkTrue"
    /\ Len(walked) >= 4
    /\ Depth(walked[2]) = 1 /\ Depth(walked[3]) = 1 /\ Depth(walked[4]) = 2
    /\ file_hashmap # <<>>

\* --------------------------------------------------------------- C18
\* C18: a run in which the recurse option resolves to false walks no
\* directory but the root, and one in which it resolves to true walks every
\* directory it pushed.
C18_DescentByValue ==
    /\ recurse = "OkFalse" => Range(walked) \subseteq {Root}
    /\ (recurse = "OkTrue" /\ pc = "done" /\ FaultSet = {}) =>
          Range(enqueued) \subseteq Range(walked)

\* --------------------------------------------------------------- C19
\* The while loop was entered: the walk of the root succeeded and the
\* lookup of recurse did.
LoopEntered == recurse # "Err" /\ Root \notin Range(stderr)

\* C19 as stated: a subdirectory is pushed only when recurse is enabled,
\* and the queue is empty when the run has returned.
C19_AsStated ==
    /\ recurse # "OkTrue" => enqueued = <<>>
    /\ pc = "done" => directory_queue = <<>>

\* C19 as amended: every subdirectory found is pushed, whatever recurse is;
\* when the run has returned, the queue is empty if the loop was entered,
\* and otherwise still holds every directory pushed by the walk of the root,
\* the one walk made.
C19_QueueDiscipline ==
    /\ (pc # "start" /\ Root \notin Range(stderr)) =>
          \A n \in 1..MaxNode :
              (Parent(n) = Root /\ is_dir(n) /\ ~skip_hidden(n)
               /\ "list" \notin faults[n]) =>
                  n \in Range(enqueued)
    /\ pc = "done" =>
          IF LoopEntered THEN directory_queue = <<>>
          ELSE directory_queue = enqueued /\ walked = <<Root>>

\* A run without recurse returned with subdirectories left in the queue.
C19_Witness ==
    /\ pc = "done"
    /\ recurse = "Err"
    /\ directory_queue # <<>>
    /\ stderr = <<>>

\* --------------------------------------------------------------- C17
\* C17: whatever the chunks the reads return, the bytes fed to the hasher
\* are the bytes of the file read so far, in order; the loop ends at the
\* end of the file, with the whole content fed.
C17_ChunkingIndependent ==
    /\ hash_pc \in {"read", "done"} => hasher = SubSeq(content, 1, file_pos)
    /\ hash_pc = "done" => hasher = content

\* A file longer than the buffer was hashed to its end by reads of which
\* one was short, so that the buffer holds a stale byte.
C17_Witness ==
    /\ hash_pc = "done"
    /\ Len(content) > BufferLen
    /\ hasher = content
    /\ buffer # SubSeq(content, Len(content) - BufferLen + 1, Len(content))

====
